---- MODULE Spec2Model ----
(***************************************************************************)
(* Model of the interactive agent registry of src-tauri/src/lib.rs:        *)
(* the lock-protected map AgentManager.agents, the five Tauri commands     *)
(* working on it (spawn_agent, send_to_agent, stop_agent,                  *)
(* get_agents_status, remove_agent), the two reader threads started for    *)
(* every spawned child, and the part of the operating system the commands  *)
(* observe: child processes, their three pipes, kill / wait / try_wait.    *)
(***************************************************************************)
EXTENDS Integers, Sequences, FiniteSets, TLC

(***************************************************************************)
(* Bounds of the model.                                                    *)
(***************************************************************************)
\* number of child processes launched in one behaviour
MaxProcs == 2
\* bytes the children write to their output pipes, all streams together
MaxOut == 3
\* capacity of a child's input pipe, in bytes
PipeCap == 1

\* children launched in one behaviour of the specification of the streams
MaxStreamProcs == 1

Ids == {"a", "b"}
\* the spawn_agent calls: id, command, args
SpawnInputs == { <<"a", <<"c">>, <<>> >>, <<"b", <<"c">>, << <<"x">> >> >> }
\* the send_to_agent inputs
Inputs == { <<>>, <<"h">> }

NL == "\n"
CR == "\r"
\* a byte that is no valid UTF-8
BAD == "?"
Bytes == {"x", NL, CR, BAD}
Streams == {"stdout", "stderr"}

(***************************************************************************)
(* AgentStatus (lib.rs 16-20) and Option values.                           *)
(***************************************************************************)
Running == [tag |-> "Running", reason |-> <<>>]
Stopped == [tag |-> "Stopped", reason |-> <<>>]
Error(reason) == [tag |-> "Error", reason |-> reason]

\* Option<T>: None is the empty sequence, Some(v) the sequence <<v>>
None == <<>>
Some(v) == <<v>>

\* Option<i32>::unwrap_or
unwrap_or(opt, dflt) == IF opt = None THEN dflt ELSE opt[1]

\* ExitStatus::success: the child ended with code 0 (a signal gives no code)
success(exit_status) == exit_status = Some(0)

\* format!("Exited with code {}", n) and format!("Failed to poll status: {}", e)
ExitedWithCode(n) == <<"Exited with code ", n>>
FailedToPoll == <<"Failed to poll status: ", 0>>

\* the exit codes a child ends with by itself; a child that is killed ends
\* with no code at all (None)
ExitStatuses == {Some(0), Some(1)}

(***************************************************************************)
(* Display name (lib.rs 195-199): command, or command + " " + args joined  *)
(* with " ". Strings are sequences of characters.                          *)
(***************************************************************************)
RECURSIVE join(_)
join(args) ==
    IF args = <<>> THEN <<>>
    ELSE IF Len(args) = 1 THEN args[1]
    ELSE args[1] \o <<" ">> \o join(Tail(args))

display_name(command, args) ==
    IF args = <<>> THEN command ELSE command \o <<" ">> \o join(args)

VARIABLES
    agents,  \* AgentManager.agents: the set of AgentProcess records of the map
    lock,    \* holder of the registry mutex: "free" or "send_to_agent"
    wr,      \* the write of a send_to_agent call that holds the lock
    os,      \* os[p]: child process p as the operating system sees it
    pipe,    \* pipe[p]: the three pipes of child p
    reader,  \* reader[p]: the two reader threads of child p
    events,  \* events[p]: what the reader threads of child p have emitted
    ret,     \* what the last finished command returned
    stopped_ids  \* history: the ids stop_agent returned Ok for, with no
                 \* spawn_agent of the id returning Ok since

vars == <<agents, lock, wr, os, pipe, reader, events, ret, stopped_ids>>

Pids == 1..Len(os)

(***************************************************************************)
(* The map: HashMap<String, AgentProcess> (lib.rs 46-56).                  *)
(***************************************************************************)
contains_key(map, id) == \E r \in map : r.id = id
get(map, id) == CHOOSE r \in map : r.id = id
\* HashMap::remove
map_remove(map, id) == {r \in map : r.id # id}
\* HashMap::insert: the record replaces whatever the key held
map_insert(map, rec) == {r \in map : r.id # rec.id} \cup {rec}
\* get_mut followed by assignments to the record's fields
map_update(map, id, rec) == {IF r.id = id THEN rec ELSE r : r \in map}

AgentInfo(rec) == [id |-> rec.id, name |-> rec.name, status |-> rec.status]

NoWrite == [pid |-> 0, id |-> "", text |-> <<>>, todo |-> <<>>, done |-> <<>>]

\* what a command returned: the command, its id argument, Ok or the error,
\* and the AgentInfo values of an Ok. wrote is the bytes the command wrote
\* to the input pipe of child `to`.
Returned(op, id, res, val) ==
    [op |-> op, id |-> id, res |-> res, val |-> val, wrote |-> <<>>, to |-> 0]

Init ==
    /\ agents = {}
    /\ lock = "free"
    /\ wr = NoWrite
    /\ os = <<>>
    /\ pipe = <<>>
    /\ reader = <<>>
    /\ events = <<>>
    /\ ret = Returned("none", "", "Ok", <<>>)
    /\ stopped_ids = {}

(***************************************************************************)
(* spawn_agent (lib.rs 76-218).                                            *)
(***************************************************************************)
\* a spawn_agent that has lost the check of lib.rs 87
spawn_never_refused(id) == FALSE

\* lib.rs 86-91: the id is refused when its record is Running
spawn_refused(id) == contains_key(agents, id) /\ get(agents, id).status = Running

\* lib.rs 86-89: a record of the id that is not Running is removed
auto_remove(map, id) ==
    IF contains_key(map, id) /\ get(map, id).status # Running
    THEN map_remove(map, id) ELSE map

\* lib.rs 97-114: Command::spawn with three piped streams
NewChild == [st |-> "alive", exit |-> None, cached |-> FALSE, stdin |-> TRUE]
NewPipes ==
    [stdin  |-> [buf |-> <<>>, open |-> TRUE],
     stdout |-> [written |-> <<>>, rpos |-> 0, open |-> TRUE],
     stderr |-> [written |-> <<>>, rpos |-> 0, open |-> TRUE]]
\* lib.rs 117-121, 172-176: the two threads, each owning its pipe end and agent_id
NewReaders(id) == [agent_id |-> id, stdout |-> "reading", stderr |-> "reading"]
NewEvents == [stdout |-> <<>>, stderr |-> <<>>, exit |-> <<>>]

\* a spawn_agent that keeps the child out of the record
NewRecord_without_child(id, name, pid) ==
    [id |-> id, name |-> name, status |-> Running, child |-> None]

\* lib.rs 207-215
NewRecord(id, name, pid) ==
    [id |-> id, name |-> name, status |-> Running, child |-> Some(pid)]

\* a spawn_agent that registers the agent before it knows of the launch
launch_failed_keeps_entry(id) ==
    /\ agents' = map_insert(auto_remove(agents, id),
                            [id |-> id, name |-> <<>>, status |-> Error(<<"launch", 0>>),
                             child |-> None])
    /\ ret' = Returned("spawn", id, "LaunchFailed", <<>>)
    /\ UNCHANGED <<lock, wr, os, pipe, reader, events, stopped_ids>>

\* lib.rs 105, 114: the launch failed, the error is returned by `?`
launch_failed(id) ==
    /\ agents' = auto_remove(agents, id)
    /\ ret' = Returned("spawn", id, "LaunchFailed", <<>>)
    /\ UNCHANGED <<lock, wr, os, pipe, reader, events, stopped_ids>>

spawn_agent(id, command, args) ==
    /\ lock = "free"
    /\ IF spawn_refused(id)
       THEN /\ ret' = Returned("spawn", id, "AlreadyRunning", <<>>)
            /\ UNCHANGED <<agents, lock, wr, os, pipe, reader, events, stopped_ids>>
       ELSE \E launched \in BOOLEAN :
            IF ~launched
            THEN launch_failed(id)
            ELSE /\ Len(os) < MaxProcs
                 /\ LET pid == Len(os) + 1
                        rec == NewRecord(id, display_name(command, args), pid)
                    IN /\ os' = Append(os, NewChild)
                       /\ pipe' = Append(pipe, NewPipes)
                       /\ reader' = Append(reader, NewReaders(id))
                       /\ events' = Append(events, NewEvents)
                       /\ agents' = map_insert(auto_remove(agents, id), rec)
                       /\ ret' = Returned("spawn", id, "Ok", <<AgentInfo(rec)>>)
                       /\ stopped_ids' = stopped_ids \ {id}
                       /\ UNCHANGED <<lock, wr>>

(***************************************************************************)
(* std::process::Child as the commands use it.                             *)
(*   os[p].st      "alive", "zombie" (ended, not yet waited for), "reaped" *)
(*   os[p].exit    the ExitStatus code of an ended child                   *)
(*   os[p].cached  the handle has stored the ExitStatus of an earlier wait *)
(*   os[p].stdin   Child.stdin is Some                                     *)
(***************************************************************************)
\* the write ends of an ended child's output pipes and the read end of its
\* input pipe are closed: what the child wrote before stays readable, what
\* it has not read of its input is lost
closed_pipes(pp) ==
    [stdin  |-> [buf |-> <<>>, open |-> FALSE],
     stdout |-> [pp.stdout EXCEPT !.open = FALSE],
     stderr |-> [pp.stderr EXCEPT !.open = FALSE]]

\* Child::try_wait: Ok(Some(status)), Ok(None) or Err. A stored status is
\* returned without asking the operating system; otherwise waitpid may fail.
try_wait_results(p) ==
    IF os[p].cached THEN {"exited"}
    ELSE IF os[p].st = "alive" THEN {"alive", "err"}
    ELSE {"exited", "err"}

\* the handle after try_wait has returned r
after_try_wait(child, r) ==
    IF r = "exited" THEN [child EXCEPT !.st = "reaped", !.cached = TRUE] ELSE child

\* Child::kill. A live child is sent the kill signal, which a child that
\* has ended but was not waited for ignores. For a handle that has stored
\* the exit status the standard library answers Ok(()) or, before Rust
\* 1.72, Err(InvalidInput).
kill_results(p) == IF os[p].cached THEN {"ok", "err"} ELSE {"ok"}

after_kill(child) ==
    IF child.st = "alive" THEN [child EXCEPT !.st = "zombie", !.exit = None] ELSE child

\* Child::wait: drops stdin, waits for the end of the child and stores the status
after_wait(child) == [child EXCEPT !.st = "reaped", !.cached = TRUE, !.stdin = FALSE]

(***************************************************************************)
(* send_to_agent (lib.rs 222-258).                                         *)
(***************************************************************************)
room(p) == PipeCap - Len(pipe[p].stdin.buf)
Min(a, b) == IF a < b THEN a ELSE b

\* a send_to_agent that has lost the check of lib.rs 232
send_check_any_status(id) ==
    IF ~contains_key(agents, id) THEN "NotFound"
    ELSE IF get(agents, id).child = None THEN "NoHandle"
    ELSE IF ~os[get(agents, id).child[1]].stdin THEN "PipeUnavailable"
    ELSE "Ok"

\* lib.rs 228-244: the four checks, in the order of the code
send_check(id) ==
    IF ~contains_key(agents, id) THEN "NotFound"
    ELSE IF get(agents, id).status # Running THEN "NotRunning"
    ELSE IF get(agents, id).child = None THEN "NoHandle"
    ELSE IF ~os[get(agents, id).child[1]].stdin THEN "PipeUnavailable"
    ELSE "Ok"

\* lib.rs 247-252: the bytes handed to write_all, input first and then "\n"
send_bytes(input) == input \o <<NL>>

\* write_all on the input pipe of child p, as far as the pipe takes it now:
\* an error when the child has closed its end, else the bytes that fit;
\* with bytes left over the call stays blocked in write, holding the lock.
\* done is what the call has written before.
write_some(p, id, text, todo, done) ==
    IF ~pipe[p].stdin.open
    THEN /\ ret' = [Returned("send", id, "IoFailure", <<>>) EXCEPT !.wrote = done, !.to = p]
         /\ lock' = "free"
         /\ wr' = NoWrite
         /\ UNCHANGED pipe
    ELSE LET n == Min(room(p), Len(todo))
             now == SubSeq(todo, 1, n)
             rest == SubSeq(todo, n + 1, Len(todo))
         IN /\ pipe' = [pipe EXCEPT ![p].stdin.buf = @ \o now]
            /\ IF rest = <<>>
               THEN /\ ret' = [Returned("send", id, "Ok", <<>>)
                                 EXCEPT !.wrote = done \o now, !.to = p]
                    /\ lock' = "free"
                    /\ wr' = NoWrite
               ELSE /\ lock' = "send_to_agent"
                    /\ wr' = [pid |-> p, id |-> id, text |-> text, todo |-> rest,
                            done |-> done \o now]
                    /\ UNCHANGED ret

send_to_agent(id, input) ==
    /\ lock = "free"
    /\ IF send_check(id) # "Ok"
       THEN /\ ret' = Returned("send", id, send_check(id), <<>>)
            /\ UNCHANGED <<agents, lock, wr, os, pipe, reader, events, stopped_ids>>
       ELSE /\ write_some(get(agents, id).child[1], id, input, send_bytes(input), <<>>)
            /\ UNCHANGED <<agents, os, reader, events, stopped_ids>>

\* the blocked write goes on when the child has read, or fails when the
\* child has closed its end
send_resume ==
    /\ lock = "send_to_agent"
    /\ ~pipe[wr.pid].stdin.open \/ room(wr.pid) > 0
    /\ write_some(wr.pid, wr.id, wr.text, wr.todo, wr.done)
    /\ UNCHANGED <<agents, os, reader, events, stopped_ids>>

(***************************************************************************)
(* stop_agent (lib.rs 262-287).                                            *)
(***************************************************************************)
\* a stop_agent that has lost the assignment of lib.rs 279
stopped_record_keeps_status(rec) == [rec EXCEPT !.child = None]

\* lib.rs 279-280
stopped_record(rec) == [rec EXCEPT !.status = Stopped, !.child = None]

stop_agent(id) ==
    /\ lock = "free"
    /\ IF ~contains_key(agents, id)
       THEN /\ ret' = Returned("stop", id, "NotFound", <<>>)
            /\ UNCHANGED <<agents, lock, wr, os, pipe, reader, events, stopped_ids>>
       ELSE LET rec == get(agents, id)
                new == stopped_record(rec)
            IN IF rec.child = None
               THEN /\ agents' = map_update(agents, id, new)
                    /\ ret' = Returned("stop", id, "Ok", <<AgentInfo(new)>>)
                    /\ stopped_ids' = stopped_ids \cup {id}
                    /\ UNCHANGED <<lock, wr, os, pipe, reader, events>>
               ELSE LET p == rec.child[1]
                    IN \E k \in kill_results(p) :
                       IF k = "err"
                       THEN /\ ret' = Returned("stop", id, "IoFailure", <<>>)
                            /\ UNCHANGED <<agents, lock, wr, os, pipe, reader, events,
                                           stopped_ids>>
                       ELSE /\ os' = [os EXCEPT ![p] = after_wait(after_kill(@))]
                            /\ pipe' = [pipe EXCEPT ![p] = closed_pipes(@)]
                            /\ agents' = map_update(agents, id, new)
                            /\ ret' = Returned("stop", id, "Ok", <<AgentInfo(new)>>)
                            /\ stopped_ids' = stopped_ids \cup {id}
                            /\ UNCHANGED <<lock, wr, reader, events>>

(***************************************************************************)
(* get_agents_status (lib.rs 291-334).                                     *)
(***************************************************************************)
\* a get_agents_status that has lost the check of lib.rs 300
refreshed_status_of_any(rec, r) ==
    IF rec.child = None THEN Stopped
    ELSE IF r = "exited"
         THEN IF success(os[rec.child[1]].exit) THEN Stopped
              ELSE Error(ExitedWithCode(unwrap_or(os[rec.child[1]].exit, -1)))
    ELSE IF r = "alive" THEN Running
    ELSE Error(FailedToPoll)

\* lib.rs 300-324: the status of one record after the refresh, r being
\* what try_wait returned for its child
refreshed_status(rec, r) ==
    IF rec.status # Running THEN rec.status
    ELSE IF rec.child = None THEN Stopped
    ELSE IF r = "exited"
         THEN IF success(os[rec.child[1]].exit) THEN Stopped
              ELSE Error(ExitedWithCode(unwrap_or(os[rec.child[1]].exit, -1)))
    ELSE IF r = "alive" THEN Running
    ELSE Error(FailedToPoll)

\* the children try_wait is called for
polled(map) == {r.child[1] : r \in {x \in map : x.status = Running /\ x.child # None}}

\* the orders in which values_mut may visit the records
Orders(S) == {o \in [1..Cardinality(S) -> S] : \A i, j \in DOMAIN o : o[i] = o[j] => i = j}

get_agents_status ==
    /\ lock = "free"
    /\ \E poll \in [Pids -> {"exited", "alive", "err"}] :
       /\ \A p \in Pids : poll[p] \in try_wait_results(p)
       /\ LET result_of(rec) == IF rec.child = None THEN "alive" ELSE poll[rec.child[1]]
              new(rec) == [rec EXCEPT !.status = refreshed_status(rec, result_of(rec))]
          IN /\ agents' = {new(rec) : rec \in agents}
             /\ os' = [p \in Pids |->
                         IF p \in polled(agents) THEN after_try_wait(os[p], poll[p])
                         ELSE os[p]]
             /\ \E o \in Orders(agents) :
                  ret' = Returned("snapshot", "", "Ok",
                                  [i \in DOMAIN o |-> AgentInfo(new(o[i]))])
    /\ UNCHANGED <<lock, wr, pipe, reader, events, stopped_ids>>

(***************************************************************************)
(* remove_agent (lib.rs 338-356).                                          *)
(***************************************************************************)
\* a remove_agent that has lost the check of lib.rs 347
still_running_ignored(rec) == FALSE

\* lib.rs 347: the record may not be removed
still_running(rec) == rec.status = Running

remove_agent(id) ==
    /\ lock = "free"
    /\ IF ~contains_key(agents, id)
       THEN /\ ret' = Returned("remove", id, "NotFound", <<>>)
            /\ UNCHANGED agents
       ELSE IF still_running(get(agents, id))
       THEN /\ ret' = Returned("remove", id, "StillRunning", <<>>)
            /\ UNCHANGED agents
       ELSE /\ agents' = map_remove(agents, id)
            /\ ret' = Returned("remove", id, "Ok", <<>>)
    /\ UNCHANGED <<lock, wr, os, pipe, reader, events, stopped_ids>>

(***************************************************************************)
(* The reader threads (lib.rs 116-192): BufReader::lines over a pipe.      *)
(***************************************************************************)
\* the bytes written to stream s of child p and not yet read
pending(p, s) == SubSeq(pipe[p][s].written, pipe[p][s].rpos + 1, Len(pipe[p][s].written))

\* position of the first "\n" of bytes, 0 when there is none
first_newline(bytes) ==
    IF \E i \in 1..Len(bytes) : bytes[i] = NL
    THEN CHOOSE i \in 1..Len(bytes) : bytes[i] = NL /\ \A j \in 1..(i - 1) : bytes[j] # NL
    ELSE 0

\* a read_line that gives up the bytes a closed stream holds after its last "\n"
read_line_drops_partial(p, s) ==
    IF first_newline(pending(p, s)) > 0
    THEN SubSeq(pending(p, s), 1, first_newline(pending(p, s)))
    ELSE <<>>

\* read_line: the bytes up to and including the next "\n", or up to the end
\* of a closed stream; <<>> at the end of the stream. Only called when
\* has_item holds (the read blocks otherwise).
read_line(p, s) ==
    IF first_newline(pending(p, s)) > 0
    THEN SubSeq(pending(p, s), 1, first_newline(pending(p, s)))
    ELSE pending(p, s)

has_item(p, s) == first_newline(pending(p, s)) > 0 \/ ~pipe[p][s].open

\* String::from_utf8 of the bytes read
valid_utf8(bytes) == \A i \in 1..Len(bytes) : bytes[i] # BAD

\* a Lines::next that leaves the "\r" of a line in place
strip_newline_only(line) ==
    IF line # <<>> /\ line[Len(line)] = NL THEN SubSeq(line, 1, Len(line) - 1) ELSE line

\* Lines::next: a final "\n" is removed, and then a final "\r"
strip_newline(line) ==
    IF line # <<>> /\ line[Len(line)] = NL
    THEN LET l1 == SubSeq(line, 1, Len(line) - 1)
         IN IF l1 # <<>> /\ l1[Len(l1)] = CR THEN SubSeq(l1, 1, Len(l1) - 1) ELSE l1
    ELSE line

\* lib.rs 125-132 and 180-187: one line read, one agent-output event emitted
reader_line(p, s) ==
    /\ reader[p][s] = "reading"
    /\ has_item(p, s)
    /\ read_line(p, s) # <<>>
    /\ valid_utf8(read_line(p, s))
    /\ events' = [events EXCEPT ![p][s] = Append(@, strip_newline(read_line(p, s)))]
    /\ pipe' = [pipe EXCEPT ![p][s].rpos = @ + Len(read_line(p, s))]
    /\ UNCHANGED <<agents, lock, wr, os, reader, ret, stopped_ids>>

\* a stdout thread that ends without the agent-exit event of lib.rs 137-143
reader_end_silent(p, s) ==
    /\ reader[p][s] = "reading"
    /\ has_item(p, s)
    /\ read_line(p, s) = <<>> \/ ~valid_utf8(read_line(p, s))
    /\ pipe' = [pipe EXCEPT ![p][s].rpos = @ + Len(read_line(p, s))]
    /\ reader' = [reader EXCEPT ![p][s] = IF s = "stdout" THEN "exit" ELSE "done"]
    /\ UNCHANGED <<agents, lock, wr, os, events, ret, stopped_ids>>

\* a stderr thread that emits agent-exit at the end of its stream, as the
\* stdout thread does
reader_end_any_stream(p, s) ==
    /\ reader[p][s] = "reading"
    /\ has_item(p, s)
    /\ read_line(p, s) = <<>> \/ ~valid_utf8(read_line(p, s))
    /\ pipe' = [pipe EXCEPT ![p][s].rpos = @ + Len(read_line(p, s))]
    /\ reader' = [reader EXCEPT ![p][s] = IF s = "stdout" THEN "exit" ELSE "done"]
    /\ events' = [events EXCEPT ![p].exit = Append(@, [code |-> None, of |-> 0])]
    /\ UNCHANGED <<agents, lock, wr, os, ret, stopped_ids>>

\* the loop ends: end of the stream, or Err(_) => break (lib.rs 133, 188).
\* The stdout thread then emits agent-exit with code None (lib.rs 137-143);
\* the stderr thread ends (lib.rs 190-191).
reader_end(p, s) ==
    /\ reader[p][s] = "reading"
    /\ has_item(p, s)
    /\ read_line(p, s) = <<>> \/ ~valid_utf8(read_line(p, s))
    /\ pipe' = [pipe EXCEPT ![p][s].rpos = @ + Len(read_line(p, s))]
    /\ IF s = "stdout"
       THEN /\ reader' = [reader EXCEPT ![p][s] = "exit"]
            /\ events' = [events EXCEPT ![p].exit = Append(@, [code |-> None, of |-> 0])]
       ELSE /\ reader' = [reader EXCEPT ![p][s] = "done"]
            /\ UNCHANGED events
    /\ UNCHANGED <<agents, lock, wr, os, ret, stopped_ids>>

\* an exit handling that marks the record as failed, the child having
\* ended without a code it could report
exit_status_update_as_error(rec, r) ==
    IF rec.child = None THEN [rec EXCEPT !.status = Error(ExitedWithCode(-1))]
    ELSE IF r \in {"exited", "alive"} THEN [rec EXCEPT !.status = Stopped]
    ELSE rec

\* lib.rs 149-164: what the stdout thread does to the record it finds under
\* its agent_id, r being what try_wait returned
exit_status_update(rec, r) ==
    IF rec.child = None THEN [rec EXCEPT !.status = Stopped]
    ELSE IF r \in {"exited", "alive"} THEN [rec EXCEPT !.status = Stopped]
    ELSE rec

\* lib.rs 145-167: the stdout thread takes the lock and updates the status
reader_exit(p) ==
    /\ reader[p].stdout = "exit"
    /\ lock = "free"
    /\ reader' = [reader EXCEPT ![p].stdout = "done"]
    /\ IF ~contains_key(agents, reader[p].agent_id)
       THEN UNCHANGED <<agents, os, events>>
       ELSE LET rec == get(agents, reader[p].agent_id)
            IN IF rec.child = None
               THEN /\ agents' = map_update(agents, rec.id, exit_status_update(rec, "alive"))
                    /\ UNCHANGED <<os, events>>
               ELSE LET c == rec.child[1]
                    IN \E r \in try_wait_results(c) :
                       /\ agents' = map_update(agents, rec.id, exit_status_update(rec, r))
                       /\ os' = [os EXCEPT ![c] = after_try_wait(@, r)]
                       /\ IF r = "exited"
                          THEN events' = [events EXCEPT ![p].exit =
                                            Append(@, [code |-> os[c].exit, of |-> c])]
                          ELSE UNCHANGED events
    /\ UNCHANGED <<lock, wr, pipe, ret, stopped_ids>>

(***************************************************************************)
(* The child processes: what a launched program may do.                    *)
(***************************************************************************)
RECURSIVE written_upto(_)
written_upto(n) ==
    IF n = 0 THEN 0
    ELSE Len(pipe[n].stdout.written) + Len(pipe[n].stderr.written) + written_upto(n - 1)
total_written == written_upto(Len(pipe))

\* the child writes one byte to one of its output streams
child_write(p, s, b) ==
    /\ os[p].st = "alive"
    /\ pipe[p][s].open
    /\ reader[p][s] = "reading"
    /\ total_written < MaxOut
    /\ pipe' = [pipe EXCEPT ![p][s].written = Append(@, b)]
    /\ UNCHANGED <<agents, lock, wr, os, reader, events, ret, stopped_ids>>

\* the child closes one of its output streams and goes on running
child_close(p, s) ==
    /\ os[p].st = "alive"
    /\ pipe[p][s].open
    /\ pipe' = [pipe EXCEPT ![p][s].open = FALSE]
    /\ UNCHANGED <<agents, lock, wr, os, reader, events, ret, stopped_ids>>

\* the child reads one byte of its input
child_read(p) ==
    /\ os[p].st = "alive"
    /\ pipe[p].stdin.open
    /\ pipe[p].stdin.buf # <<>>
    /\ pipe' = [pipe EXCEPT ![p].stdin.buf = Tail(@)]
    /\ UNCHANGED <<agents, lock, wr, os, reader, events, ret, stopped_ids>>

\* the child ends by itself
child_exit(p, status) ==
    /\ os[p].st = "alive"
    /\ os' = [os EXCEPT ![p].st = "zombie", ![p].exit = status]
    /\ pipe' = [pipe EXCEPT ![p] = closed_pipes(@)]
    /\ UNCHANGED <<agents, lock, wr, reader, events, ret, stopped_ids>>

\* the commands, the stdout threads' end and exit handling, and the children
\* as far as the registry sees them
NextRegistry ==
    \/ \E c \in SpawnInputs : spawn_agent(c[1], c[2], c[3])
    \/ \E id \in Ids, input \in Inputs : send_to_agent(id, input)
    \/ send_resume
    \/ \E id \in Ids : stop_agent(id)
    \/ get_agents_status
    \/ \E id \in Ids : remove_agent(id)
    \/ \E p \in Pids : reader_end(p, "stdout")
    \/ \E p \in Pids : reader_exit(p)
    \/ \E p \in Pids : child_close(p, "stdout")
    \/ \E p \in Pids : child_read(p)
    \/ \E p \in Pids, status \in ExitStatuses : child_exit(p, status)

Spec == Init /\ [][NextRegistry]_vars

\* the children's output and the two reader threads of each child
NextStreams ==
    \/ \E c \in SpawnInputs : Len(os) < MaxStreamProcs /\ spawn_agent(c[1], c[2], c[3])
    \/ \E id \in Ids : stop_agent(id)
    \/ \E p \in Pids, s \in Streams, b \in Bytes : child_write(p, s, b)
    \/ \E p \in Pids, s \in Streams : child_close(p, s)
    \/ \E p \in Pids, status \in ExitStatuses : child_exit(p, status)
    \/ \E p \in Pids, s \in Streams : reader_line(p, s)
    \/ \E p \in Pids, s \in Streams : reader_end(p, s)
    \/ \E p \in Pids : reader_exit(p)

SpecStreams == Init /\ [][NextStreams]_vars

(***************************************************************************)
(* Steps of the commands, for the properties below.                        *)
(***************************************************************************)
spawn_call(id) == \E c \in SpawnInputs : c[1] = id /\ spawn_agent(c[1], c[2], c[3])
send_call(id) == \E input \in Inputs : send_to_agent(id, input)
stop_call(id) == stop_agent(id)
remove_call(id) == remove_agent(id)

has_record(id) == \E r \in agents : r.id = id
record(id) == CHOOSE r \in agents : r.id = id
is_running(id) == has_record(id) /\ record(id).status.tag = "Running"
is_terminal(id) == has_record(id) /\ record(id).status.tag \in {"Stopped", "Error"}
\* the same in the state after the step
has_record_after(id) == \E r \in agents' : r.id = id
record_after(id) == CHOOSE r \in agents' : r.id = id

\* a command returned res for id in this step
returns(op, id, res) == ret'.op = op /\ ret'.id = id /\ ret'.res = res
\* some byte reached the input pipe of a child in this step
delivered == \E p \in Pids : Len(pipe'[p].stdin.buf) > Len(pipe[p].stdin.buf)

(***************************************************************************)
(* C1: spawn(id, ...) on an id whose record is Running returns             *)
(* AlreadyRunning, launches no process, starts no reader thread and leaves *)
(* every record as it was; in every state an id has at most one record     *)
(* with status Running.                                                    *)
(***************************************************************************)
C1_SpawnWhileRunning ==
    /\ [][\A id \in Ids : (is_running(id) /\ spawn_call(id)) =>
            /\ returns("spawn", id, "AlreadyRunning")
            /\ UNCHANGED <<agents, os, pipe, reader, events>>]_vars
    /\ [](\A id \in Ids :
            Cardinality({r \in agents : r.id = id /\ r.status = Running}) <= 1)

\* spawn was refused for a Running record while the other id has a record too
C1_Witness ==
    /\ ret.op = "spawn" /\ ret.res = "AlreadyRunning"
    /\ is_running(ret.id)
    /\ \E r \in agents : r.id # ret.id

(***************************************************************************)
(* C2, as claimed: after stop(id) has returned Ok the record of id is      *)
(* Stopped without handle, and until a spawn(id) returns Ok every          *)
(* send(id, _) returns NotRunning and delivers nothing.                    *)
(***************************************************************************)
C2_AsClaimed ==
    /\ [][\A id \in Ids : (stop_call(id) /\ returns("stop", id, "Ok")) =>
            /\ has_record_after(id)
            /\ record_after(id).status = Stopped
            /\ record_after(id).child = None]_vars
    /\ [][\A id \in stopped_ids : send_call(id) =>
            /\ returns("send", id, "NotRunning")
            /\ ~delivered]_vars

(***************************************************************************)
(* C2, amended: after stop(id) has returned Ok and until a spawn(id)       *)
(* returns Ok, the record of id, for as long as it is in the registry, is  *)
(* Stopped without handle, whatever the reader threads and snapshot calls  *)
(* do; every send(id, _) delivers nothing and returns NotRunning while     *)
(* the record is there, NotFound once it has been deleted.                 *)
(***************************************************************************)
C2_StoppedUntilRespawn ==
    /\ [][\A id \in Ids : (stop_call(id) /\ returns("stop", id, "Ok")) =>
            /\ has_record_after(id)
            /\ record_after(id).status = Stopped
            /\ record_after(id).child = None]_vars
    /\ [](\A id \in stopped_ids :
            has_record(id) => record(id).status = Stopped /\ record(id).child = None)
    /\ [][\A id \in stopped_ids : send_call(id) =>
            /\ returns("send", id, IF has_record(id) THEN "NotRunning" ELSE "NotFound")
            /\ ~delivered]_vars

\* send was refused with NotRunning after a stop, the reader thread of the
\* stopped child having finished its exit handling
C2_Witness ==
    /\ ret.op = "send" /\ ret.res = "NotRunning"
    /\ ret.id \in stopped_ids
    /\ \E p \in Pids : reader[p].agent_id = ret.id /\ reader[p].stdout = "done"

(***************************************************************************)
(* C3, as claimed: stop(id) returns NotFound when id has no record, and    *)
(* otherwise returns Ok, sets the status to Stopped and discards the       *)
(* handle, whatever the termination step answers.                          *)
(***************************************************************************)
C3_StopFailsOnlyNotFound ==
    [][\A id \in Ids : stop_call(id) =>
        IF ~has_record(id)
        THEN returns("stop", id, "NotFound") /\ UNCHANGED agents
        ELSE /\ returns("stop", id, "Ok")
             /\ has_record_after(id)
             /\ record_after(id).status = Stopped
             /\ record_after(id).child = None]_vars

(***************************************************************************)
(* C4: remove(id) returns NotFound without a record and StillRunning for a *)
(* Running record, the registry unchanged in both cases; otherwise it      *)
(* returns Ok and deletes the record of id and no other.                   *)
(***************************************************************************)
C4_Remove ==
    [][\A id \in Ids : remove_call(id) =>
        IF ~has_record(id)
        THEN returns("remove", id, "NotFound") /\ UNCHANGED agents
        ELSE IF record(id).status.tag = "Running"
        THEN returns("remove", id, "StillRunning") /\ UNCHANGED agents
        ELSE /\ returns("remove", id, "Ok")
             /\ agents' = agents \ {record(id)}
             /\ ~has_record_after(id)]_vars

\* a terminal record was removed and the record of the other id is still there
C4_Witness ==
    /\ ret.op = "remove" /\ ret.res = "Ok"
    /\ ~has_record(ret.id)
    /\ \E r \in agents : r.id # ret.id

(***************************************************************************)
(* C5: a spawn(id, ...) that fails to launch leaves no record of id,       *)
(* starts no reader thread, publishes no event and touches no other        *)
(* record; while it is the last command returned, id has no record, and a  *)
(* snapshot taken then does not list id.                                   *)
(***************************************************************************)
C5_LaunchFailure ==
    /\ [][\A id \in Ids : (spawn_call(id) /\ returns("spawn", id, "LaunchFailed")) =>
            /\ ~has_record_after(id)
            /\ {r \in agents' : r.id # id} = {r \in agents : r.id # id}
            /\ UNCHANGED <<os, pipe, reader, events>>]_vars
    /\ []((ret.op = "spawn" /\ ret.res = "LaunchFailed") => ~has_record(ret.id))
    /\ [][(ret.op = "spawn" /\ ret.res = "LaunchFailed" /\ get_agents_status) =>
            \A i \in DOMAIN ret'.val : ret'.val[i].id # ret.id]_vars

\* a launch failed although the model would have admitted one more child,
\* and the other id has a record
C5_Witness ==
    /\ ret.op = "spawn" /\ ret.res = "LaunchFailed"
    /\ Len(os) < MaxProcs
    /\ \E r \in agents : r.id # ret.id

(***************************************************************************)
(* C6: send(id, text) answers NotFound, NotRunning, NoHandle,              *)
(* PipeUnavailable in this order of checks; bytes reach the input of a     *)
(* child only while the record holding it is Running; a send that returns  *)
(* Ok has written exactly text and one "\n" to that child; no send step    *)
(* changes a record.                                                       *)
(***************************************************************************)
C6_Send ==
    /\ [][\A id \in Ids : send_call(id) =>
            IF ~has_record(id) THEN returns("send", id, "NotFound") /\ ~delivered
            ELSE IF record(id).status.tag # "Running"
            THEN returns("send", id, "NotRunning") /\ ~delivered
            ELSE IF record(id).child = None
            THEN returns("send", id, "NoHandle") /\ ~delivered
            ELSE IF ~os[record(id).child[1]].stdin
            THEN returns("send", id, "PipeUnavailable") /\ ~delivered
            ELSE \/ lock' = "send_to_agent" /\ UNCHANGED ret
                 \/ lock' = "free" /\ returns("send", id, "Ok")
                 \/ lock' = "free" /\ returns("send", id, "IoFailure")]_vars
    /\ [][\A p \in Pids : Len(pipe'[p].stdin.buf) > Len(pipe[p].stdin.buf) =>
            \E r \in agents : r.status.tag = "Running" /\ r.child = <<p>>]_vars
    /\ [][\A id \in Ids, input \in Inputs :
            (send_to_agent(id, input) /\ lock' = "free" /\ ret'.res = "Ok") =>
            /\ ret'.wrote = input \o <<"\n">>
            /\ ret'.to = record(id).child[1]
            /\ pipe'[ret'.to].stdin.buf = pipe[ret'.to].stdin.buf \o input \o <<"\n">>]_vars
    /\ [][(send_resume /\ lock' = "free" /\ ret'.res = "Ok") =>
            /\ ret'.wrote = wr.text \o <<"\n">>
            /\ ret'.to = wr.pid
            /\ pipe'[wr.pid].stdin.buf = pipe[wr.pid].stdin.buf \o wr.todo]_vars
    /\ [][((\E id \in Ids : send_call(id)) \/ send_resume) => UNCHANGED agents]_vars

\* a send of "h" returned Ok after it had been blocked on the full pipe
C6_Witness ==
    /\ ret.op = "send" /\ ret.res = "Ok"
    /\ ret.wrote = <<"h", "\n">>
    /\ is_running(ret.id)

(***************************************************************************)
(* The lines of a byte sequence, for C7.                                   *)
(***************************************************************************)
C7_HasNewline(bytes) == \E i \in 1..Len(bytes) : bytes[i] = "\n"
C7_Cut(bytes) == CHOOSE i \in 1..Len(bytes) : bytes[i] = "\n" /\ \A j \in 1..(i - 1) : bytes[j] # "\n"

\* the newline-terminated lines of bytes, each without its "\n"
RECURSIVE C7_TerminatedLines(_)
C7_TerminatedLines(bytes) ==
    IF ~C7_HasNewline(bytes) THEN <<>>
    ELSE <<SubSeq(bytes, 1, C7_Cut(bytes) - 1)>>
         \o C7_TerminatedLines(SubSeq(bytes, C7_Cut(bytes) + 1, Len(bytes)))

\* what follows the last "\n" of bytes
RECURSIVE C7_Remainder(_)
C7_Remainder(bytes) ==
    IF ~C7_HasNewline(bytes) THEN bytes
    ELSE C7_Remainder(SubSeq(bytes, C7_Cut(bytes) + 1, Len(bytes)))

C7_IsPrefix(a, b) == Len(a) <= Len(b) /\ \A i \in 1..Len(a) : a[i] = b[i]
C7_Valid(line) == \A i \in 1..Len(line) : line[i] # "?"
C7_DropCR(line) ==
    IF line # <<>> /\ line[Len(line)] = "\r" THEN SubSeq(line, 1, Len(line) - 1) ELSE line

\* the terminated lines with a final "\r" dropped, then a non-empty
\* remainder as it is; cut before the first line that is no valid UTF-8
C7_Items(bytes) ==
    LET t == C7_TerminatedLines(bytes)
        stripped == [i \in 1..Len(t) |-> C7_DropCR(t[i])]
    IN IF C7_Remainder(bytes) = <<>> THEN stripped
       ELSE stripped \o <<C7_Remainder(bytes)>>
C7_ValidItems(bytes) ==
    SubSeq(C7_Items(bytes), 1,
           IF \A i \in 1..Len(C7_Items(bytes)) : C7_Valid(C7_Items(bytes)[i])
           THEN Len(C7_Items(bytes))
           ELSE (CHOOSE i \in 1..Len(C7_Items(bytes)) :
                    /\ ~C7_Valid(C7_Items(bytes)[i])
                    /\ \A j \in 1..(i - 1) : C7_Valid(C7_Items(bytes)[j])) - 1)

(***************************************************************************)
(* C7, as claimed: the agent-output events of a stream are, in order and   *)
(* once each, the newline-terminated lines the child wrote to it, without  *)
(* the "\n": a prefix of them while the thread reads, all of them when it  *)
(* has ended.                                                              *)
(***************************************************************************)
C7_AsClaimed ==
    \A p \in Pids, s \in Streams :
        /\ C7_IsPrefix(events[p][s], C7_TerminatedLines(pipe[p][s].written))
        /\ reader[p][s] # "reading" =>
              events[p][s] = C7_TerminatedLines(pipe[p][s].written)

(***************************************************************************)
(* C7, amended: the agent-output events of a stream are, in order and once *)
(* each, what BufRead::lines yields for the bytes the child wrote before   *)
(* the stream closed: every newline-terminated line without its "\n" and   *)
(* without a "\r" before it, then the non-empty rest after the last "\n";  *)
(* the events end before the first line that is no valid UTF-8. They are a *)
(* prefix of this while the thread reads and all of it when it has ended.  *)
(***************************************************************************)
C7_EventsAreLines ==
    \A p \in Pids, s \in Streams :
        /\ C7_IsPrefix(events[p][s], C7_ValidItems(pipe[p][s].written))
        /\ reader[p][s] # "reading" =>
              events[p][s] = C7_ValidItems(pipe[p][s].written)

\* a stdout thread has ended after a line ending in "\r\n" and an
\* unterminated rest, with one event for each
C7_Witness ==
    \E p \in Pids :
        /\ reader[p].stdout # "reading"
        /\ pipe[p].stdout.written = <<"\r", "\n", "x">>
        /\ events[p].stdout = << <<>>, <<"x">> >>

(***************************************************************************)
(* C8: snapshot() returns one AgentInfo per record, inserts and deletes    *)
(* nothing, leaves name and handle of every record alone, leaves the       *)
(* status of every Stopped or Error record alone, and gives a Running      *)
(* record the status its child's state asks for: alive - Running, ended    *)
(* with code 0 - Stopped, ended otherwise - Error, or Error when the       *)
(* liveness check itself failed.                                           *)
(***************************************************************************)
C8_Expected(r) ==
    IF r.status.tag # "Running" THEN {r.status}
    ELSE IF r.child = <<>> THEN {Stopped}
    ELSE LET c == os[r.child[1]]
         IN {Error(<<"Failed to poll status: ", 0>>)} \cup
            (IF c.st = "alive" THEN {Running}
             ELSE IF c.exit = <<0>> THEN {Stopped}
             ELSE IF c.exit = <<>> THEN {Error(<<"Exited with code ", -1>>)}
             ELSE {Error(<<"Exited with code ", c.exit[1]>>)})

C8_Snapshot ==
    [][get_agents_status =>
        /\ ret'.op = "snapshot" /\ ret'.res = "Ok"
        /\ Len(ret'.val) = Cardinality(agents')
        /\ {ret'.val[i] : i \in DOMAIN ret'.val}
             = {[id |-> r.id, name |-> r.name, status |-> r.status] : r \in agents'}
        /\ Cardinality(agents') = Cardinality(agents)
        /\ \A r \in agents :
            /\ has_record_after(r.id)
            /\ record_after(r.id).name = r.name
            /\ record_after(r.id).child = r.child
            /\ record_after(r.id).status \in C8_Expected(r)
            /\ (r.status.tag = "Running" /\ record_after(r.id).status.tag = "Running")
                  => os[r.child[1]].st = "alive"]_vars

\* a snapshot returned two records, one ended with code 1, one still running
C8_Witness ==
    /\ ret.op = "snapshot" /\ Len(ret.val) = 2
    /\ \E i \in DOMAIN ret.val : ret.val[i].status = Error(<<"Exited with code ", 1>>)
    /\ \E i \in DOMAIN ret.val : ret.val[i].status = Running

(***************************************************************************)
(* C9, as claimed, for the records of children that have ended: no step    *)
(* of snapshot and no exit handling of a stdout thread changes the status  *)
(* of a record that is Stopped or Error(Exited with code n).               *)
(***************************************************************************)
C9_TerminalStays ==
    [][(get_agents_status \/ \E p \in Pids : reader_exit(p)) =>
        \A r \in agents :
            (\/ r.status.tag = "Stopped"
             \/ r.status.tag = "Error" /\ r.status.reason[1] = "Exited with code ") =>
            /\ has_record_after(r.id)
            /\ record_after(r.id).status = r.status]_vars

(***************************************************************************)
(* C10: the registry holds at most one record per id and every Running     *)
(* record holds its child; a record gets a child only when spawn inserts   *)
(* it as Running, and a record loses its child only in a stop, which       *)
(* leaves it Stopped.                                                      *)
(***************************************************************************)
C10_RunningHasHandle ==
    /\ [](\A id \in Ids : Cardinality({r \in agents : r.id = id}) <= 1)
    /\ [](\A r \in agents : r.status.tag = "Running" => r.child # <<>>)
    /\ [][\A r \in agents' :
            (r.child # <<>> /\ ~\E o \in agents : o.id = r.id /\ o.child = r.child) =>
            r.status.tag = "Running" /\ spawn_call(r.id)]_vars
    /\ [][\A r \in agents :
            (r.child # <<>> /\ has_record_after(r.id) /\ record_after(r.id).child = <<>>) =>
            stop_call(r.id) /\ record_after(r.id).status = Stopped]_vars

\* a Running record holds a child that has ended and was not yet observed,
\* beside a stopped record that has given up its child
C10_Witness ==
    /\ \E r \in agents :
         r.status.tag = "Running" /\ r.child # <<>> /\ os[r.child[1]].st = "zombie"
    /\ \E r \in agents : r.status.tag = "Stopped" /\ r.child = <<>>

(***************************************************************************)
(* C11, as claimed, in the states the stdout thread leaves behind: a       *)
(* stdout thread that has seen the end of its stream has published an      *)
(* agent-exit event; its exit handling is not kept waiting by a command    *)
(* that waits for a child; and when it has finished, the record that still *)
(* holds its child is no longer Running, no snapshot being needed.         *)
(***************************************************************************)
C11_ExitObserved ==
    /\ \A p \in Pids : reader[p].stdout # "reading" => Len(events[p].exit) >= 1
    /\ \A p \in Pids : reader[p].stdout = "exit" => ENABLED reader_exit(p)
    /\ \A p \in Pids : \A r \in agents :
          (reader[p].stdout = "done" /\ r.child = <<p>>) => r.status.tag # "Running"

(***************************************************************************)
(* C12, as claimed: a stdout thread publishes no more than one agent-exit  *)
(* event, and exactly one when it has finished.                            *)
(***************************************************************************)
C12_AsClaimed ==
    \A p \in Pids :
        /\ Len(events[p].exit) <= 1
        /\ reader[p].stdout = "done" => Len(events[p].exit) = 1

(***************************************************************************)
(* C12, amended: the stdout thread of a child publishes one agent-exit     *)
(* event without code when its stream ends and at most one more; the       *)
(* second is published by its exit handling exactly when the poll of the   *)
(* handle stored under its id finds an ended child, and carries that       *)
(* child's exit code. No other step publishes an agent-exit event.         *)
(***************************************************************************)
C12_OneOrTwoExitEvents ==
    /\ [](\A p \in Pids :
            /\ reader[p].stdout = "reading" => events[p].exit = <<>>
            /\ reader[p].stdout = "exit" => Len(events[p].exit) = 1
            /\ reader[p].stdout = "done" => Len(events[p].exit) \in {1, 2}
            /\ Len(events[p].exit) >= 1 => events[p].exit[1] = [code |-> <<>>, of |-> 0]
            /\ Len(events[p].exit) = 2 =>
                  /\ events[p].exit[2].of \in Pids
                  /\ os[events[p].exit[2].of].st = "reaped"
                  /\ events[p].exit[2].code = os[events[p].exit[2].of].exit)
    /\ [][\A p \in Pids : events'[p].exit # events[p].exit =>
            reader_end(p, "stdout") \/ reader_exit(p)]_vars
    /\ [][\A p \in Pids : reader_exit(p) =>
            (Len(events'[p].exit) = 2 <=>
                \E r \in agents : /\ r.id = reader[p].agent_id
                                  /\ r.child # <<>>
                                  /\ os'[r.child[1]].st = "reaped")]_vars

\* a stdout thread has finished with two events, the second with code 1
C12_Witness ==
    \E p \in Pids :
        /\ reader[p].stdout = "done"
        /\ events[p].exit = <<[code |-> <<>>, of |-> 0], [code |-> <<1>>, of |-> p]>>

(***************************************************************************)
(* C13, as claimed: no command other than stop waits for a child while it  *)
(* holds the registry lock; in particular no state has the lock held by a  *)
(* send_to_agent that waits for room in the input pipe of a child.         *)
(***************************************************************************)
C13_NoBlockingUnderLock ==
    ~(/\ lock = "send_to_agent"
      /\ wr.todo # <<>>
      /\ pipe[wr.pid].stdin.open
      /\ Len(pipe[wr.pid].stdin.buf) = PipeCap)

(***************************************************************************)
(* C14, as claimed: only newline-terminated lines produce agent-output     *)
(* events; what a stream holds after its last "\n" when it closes is       *)
(* discarded.                                                              *)
(***************************************************************************)
C14_AsClaimed ==
    \A p \in Pids, s \in Streams :
        Len(events[p][s]) <= Len(C7_TerminatedLines(pipe[p][s].written))

(***************************************************************************)
(* C14, amended: when a stream of valid UTF-8 closes in the middle of a    *)
(* line, the thread publishes, after the events of the terminated lines,   *)
(* one agent-output event carrying the bytes after the last "\n" as they   *)
(* are; it publishes an unterminated line only once the stream is closed,  *)
(* and then the whole of it.                                               *)
(***************************************************************************)
C14_PartialLineEmitted ==
    /\ [](\A p \in Pids, s \in Streams :
            (reader[p][s] # "reading" /\ C7_Valid(pipe[p][s].written)) =>
                /\ Len(events[p][s]) = Len(C7_TerminatedLines(pipe[p][s].written))
                        + (IF C7_Remainder(pipe[p][s].written) = <<>> THEN 0 ELSE 1)
                /\ C7_Remainder(pipe[p][s].written) # <<>> =>
                        events[p][s][Len(events[p][s])] = C7_Remainder(pipe[p][s].written))
    /\ [][\A p \in Pids, s \in Streams :
            (reader_line(p, s) /\ ~C7_HasNewline(pending(p, s))) =>
                /\ ~pipe[p][s].open
                /\ events'[p][s] = Append(events[p][s], pending(p, s))
                /\ pipe'[p][s].rpos = Len(pipe[p][s].written)]_vars

\* a stderr thread has ended after an empty line and an unterminated rest
\* that ends in "\r", with one event for each
C14_Witness ==
    \E p \in Pids :
        /\ reader[p].stderr = "done"
        /\ pipe[p].stderr.written = <<"\n", "x", "\r">>
        /\ events[p].stderr = << <<>>, <<"x", "\r">> >>

(***************************************************************************)
(* C15: no step of a stderr thread, and no closing of a stderr stream,     *)
(* publishes an agent-exit event, changes a record or moves the stdout     *)
(* thread; the status of a record changes only in stop, snapshot, a spawn  *)
(* that replaces the record, and the exit handling of a stdout thread.     *)
(***************************************************************************)
C15_StderrNoExitHandling ==
    /\ [][\A p \in Pids :
            (reader_line(p, "stderr") \/ reader_end(p, "stderr") \/ child_close(p, "stderr")) =>
                /\ UNCHANGED agents
                /\ \A q \in Pids : events'[q].exit = events[q].exit
                /\ \A q \in Pids : reader'[q].stdout = reader[q].stdout]_vars
    /\ [][\A r \in agents :
            (has_record_after(r.id) /\ record_after(r.id).status # r.status) =>
                \/ stop_call(r.id)
                \/ spawn_call(r.id)
                \/ get_agents_status
                \/ \E p \in Pids : reader[p].agent_id = r.id /\ reader_exit(p)]_vars

\* the stderr thread of a child has ended at the close of stderr while the
\* child runs with its stdout open: no agent-exit event, the record Running
C15_Witness ==
    \E p \in Pids :
        /\ reader[p].stderr = "done" /\ ~pipe[p].stderr.open
        /\ reader[p].stdout = "reading" /\ pipe[p].stdout.open
        /\ os[p].st = "alive"
        /\ events[p].exit = <<>>
        /\ \E r \in agents : r.child = <<p>> /\ r.status.tag = "Running"

(***************************************************************************)
(* C16: stop(id) and the exit handling of the stdout thread in either      *)
(* order. A stop that returns Ok after the thread has finished leaves the  *)
(* record Stopped without handle and keeps a status Stopped the thread has *)
(* set; an exit handling that runs after the stop changes no record; with  *)
(* both finished and no spawn of the id since, the record, if it is still  *)
(* in the registry, is Stopped without handle.                             *)
(***************************************************************************)
C16_StopAndReaderEitherOrder ==
    /\ [][\A p \in Pids :
            (/\ reader[p].stdout = "done"
             /\ stop_call(reader[p].agent_id)
             /\ returns("stop", reader[p].agent_id, "Ok")) =>
                /\ has_record_after(reader[p].agent_id)
                /\ record_after(reader[p].agent_id).status = Stopped
                /\ record_after(reader[p].agent_id).child = <<>>
                /\ {r \in agents' : r.id # reader[p].agent_id}
                      = {r \in agents : r.id # reader[p].agent_id}]_vars
    /\ [][\A p \in Pids :
            (reader[p].agent_id \in stopped_ids /\ reader_exit(p)) =>
                UNCHANGED <<agents, os, events>>]_vars
    /\ [](\A p \in Pids :
            (/\ reader[p].stdout = "done"
             /\ reader[p].agent_id \in stopped_ids
             /\ has_record(reader[p].agent_id)) =>
                /\ record(reader[p].agent_id).status = Stopped
                /\ record(reader[p].agent_id).child = <<>>)

\* both orders have happened: the thread of p had polled its ended child
\* before the stop of its id, the thread of q found the child killed by the
\* stop of its id
C16_Witness ==
    \E p, q \in Pids :
        /\ reader[p].agent_id # reader[q].agent_id
        /\ {reader[p].agent_id, reader[q].agent_id} \subseteq stopped_ids
        /\ reader[p].stdout = "done" /\ reader[q].stdout = "done"
        /\ Len(events[p].exit) = 2 /\ events[p].exit[2].of = p
        /\ Len(events[q].exit) = 1 /\ os[q].exit = <<>>
        /\ \A r \in agents : r.status = Stopped /\ r.child = <<>>
        /\ Cardinality(agents) = 2

(***************************************************************************)
(* C17, as claimed: the exit handling of the stdout thread of child p      *)
(* leaves alone a record that holds another child: it does not poll that   *)
(* child, does not change the record, and publishes no exit code but the   *)
(* one of p.                                                               *)
(***************************************************************************)
C17_ReaderOwnProcess ==
    /\ [][\A p \in Pids : reader_exit(p) =>
            \A r \in agents :
                (r.id = reader[p].agent_id /\ r.child # <<>> /\ r.child # <<p>>) =>
                    /\ r \in agents'
                    /\ os'[r.child[1]] = os[r.child[1]]]_vars
    /\ [](\A p \in Pids : \A i \in DOMAIN events[p].exit :
            events[p].exit[i].of \in {0, p})

(***************************************************************************)
(* C18, as claimed, for the records stop and the stdout threads leave: a   *)
(* record with status Stopped never refers to a child that is still alive, *)
(* and when the handle of such a record leaves the registry (remove, or a  *)
(* spawn replacing the record) the child has ended.                        *)
(***************************************************************************)
C18_NoLiveProcessDropped ==
    /\ [](\A r \in agents :
            (r.status = Stopped /\ r.child # <<>>) => os[r.child[1]].st # "alive")
    /\ [][\A r \in agents :
            (r.status = Stopped /\ r.child # <<>> /\ ~\E n \in agents' : n.child = r.child) =>
                os'[r.child[1]].st # "alive"]_vars

(***************************************************************************)
(* C19, as claimed, in the states of a behaviour: whenever the registry    *)
(* lock is taken, so that stop and every other command waits for it, the   *)
(* call that holds it can finish without a step of any child.              *)
(***************************************************************************)
C19_LockHolderProceeds ==
    \/ /\ \A id \in Ids : ENABLED stop_agent(id)
       /\ \A id \in Ids : ENABLED remove_agent(id)
       /\ \A id \in Ids, input \in Inputs : ENABLED send_to_agent(id, input)
       /\ \A c \in SpawnInputs : ENABLED spawn_agent(c[1], c[2], c[3])
       /\ ENABLED get_agents_status
    \/ ENABLED send_resume

(***************************************************************************)
(* C20, as claimed: a spawn(id, ...) that returns an error leaves every    *)
(* record as it was.                                                       *)
(***************************************************************************)
C20_FailedSpawnChangesNothing ==
    [][\A id \in Ids :
        (spawn_call(id) /\ ret'.op = "spawn" /\ ret'.id = id /\ ret'.res # "Ok") =>
            UNCHANGED agents]_vars

====
